---- MODULE Spec2Model ----
(***************************************************************************)
(* The folder hierarchy of apps/files: the folder endpoints of             *)
(* folder_views.py and the serializers of folder_serializers.py, over a    *)
(* store of Folder rows (id, user, name, parent, deleted_at) and of File   *)
(* rows (id, user, folder, file_size, deleted_at).                         *)
(*                                                                         *)
(* apps/files/models.py is not among the sources: Folder.soft_delete,      *)
(* Folder.restore, Folder.get_ancestors and Folder.get_descendants are     *)
(* modelled from spec.md section 4.2, the transaction of a cascade from     *)
(* section 5.                                                               *)
(*                                                                         *)
(* A request is one step, except where its steps are the subject: txn is   *)
(* the open transaction of a cascade that runs member by member, reqs the  *)
(* requests that have validated and have not yet written.                  *)
(***************************************************************************)
EXTENDS Integers, Sequences, FiniteSets, TLC

VARIABLES folders, files, now, last, txn, reqs

vars == <<folders, files, now, last, txn, reqs>>

\* ---------------------------------------------------------------- bounds

\* Folder rows the store may hold.
MaxFolders == 3

\* Ticks of the clock read by soft_delete.
MaxTime == 2

\* File rows of the store.
MaxFiles == 1

\* ------------------------------------------------------------- constants

\* None: a null parent (root level), a null deleted_at (active).
NULL == 0

\* The bound of the ancestor walk (spec.md 4.2, "e.g. 50").
MaxDepth == 50

Users == {"u1", "u2"}

\* Names are sequences of characters: <<"a">> is the name a.

FolderIds == 1..MaxFolders

FileIds == 1..MaxFiles

\* A parent reference of a request: null or any id, existing or not.
ParentArgs == {NULL} \cup FolderIds

\* ------------------------------------------------------- string helpers

\* str.lower() on one character of the alphabet used here.
LowerChar(c) == IF c = "A" THEN "a" ELSE IF c = "B" THEN "b" ELSE c

\* name__iexact compares case-insensitively.
Lower(s) == [i \in 1..Len(s) |-> LowerChar(s[i])]

IExact(s, t) == Lower(s) = Lower(t)

RECURSIVE LStrip(_)
LStrip(s) == IF s # <<>> /\ Head(s) = " " THEN LStrip(Tail(s)) ELSE s

RECURSIVE RStrip(_)
RStrip(s) ==
    IF s # <<>> /\ s[Len(s)] = " " THEN RStrip(SubSeq(s, 1, Len(s) - 1)) ELSE s

\* str.strip()
Strip(s) == RStrip(LStrip(s))

invalid_chars == {"/", "\\", ":", "*", "?", "\"", "<", ">", "|"}

HasInvalidChar(s) == \E i \in 1..Len(s) : s[i] \in invalid_chars

\* ------------------------------------------------------------ the store

Exists(fs, id) == id \in 1..Len(fs)

IsActive(fs, id) == fs[id].deleted_at = NULL

\* ------------------------------------------------- Folder model methods

\* Folder.get_ancestors: root first, immediate parent last, the folder itself
\* excluded; the walk stops after MaxDepth steps.
RECURSIVE AncestorWalk(_, _, _)
AncestorWalk(fs, id, fuel) ==
    IF fuel = 0 \/ fs[id].parent = NULL \/ ~Exists(fs, fs[id].parent)
    THEN <<>>
    ELSE Append(AncestorWalk(fs, fs[id].parent, fuel - 1), fs[id].parent)

get_ancestors(fs, id) == AncestorWalk(fs, id, MaxDepth)

InSeq(x, s) == \E i \in 1..Len(s) : s[i] = x

\* The children of a set of folders: active ones only, or all.
ChildrenOf(fs, S, activeOnly) ==
    {c \in 1..Len(fs) : fs[c].parent \in S /\ (activeOnly => IsActive(fs, c))}

RECURSIVE Closure(_, _, _)
Closure(fs, S, activeOnly) ==
    LET T == S \cup ChildrenOf(fs, S, activeOnly)
    IN  IF T = S THEN S ELSE Closure(fs, T, activeOnly)

\* Folder.get_descendants: the active descendants, walked over active children.
get_descendants(fs, id) == Closure(fs, ChildrenOf(fs, {id}, TRUE), TRUE)

\* The folders Folder.get_descendants visits, depth first, in the order of the
\* walk over the active children; the walk stops MaxDepth levels down.
RECURSIVE descendants_walk(_, _, _)
descendants_walk(fs, S, fuel) ==
    IF S = {} \/ fuel = 0 THEN <<>>
    ELSE LET f == CHOOSE x \in S : \A y \in S : x <= y
         IN  <<f>> \o descendants_walk(fs, ChildrenOf(fs, {f}, TRUE), fuel - 1)
                  \o descendants_walk(fs, S \ {f}, fuel)

\* Every descendant, deleted or not (the restore cascade looks at them all).
all_descendants(fs, id) == Closure(fs, ChildrenOf(fs, {id}, FALSE), FALSE)

\* soft_delete without the cascade.
soft_delete_NoCascade(fs, id, t) ==
    IF ~IsActive(fs, id) THEN fs ELSE [fs EXCEPT ![id].deleted_at = t]

\* Folder.soft_delete at time t: the folder and its active descendants get the
\* same deleted_at; an already deleted folder is left alone.
soft_delete(fs, id, t) ==
    IF ~IsActive(fs, id) THEN fs
    ELSE LET D == {id} \cup get_descendants(fs, id)
         IN  [i \in 1..Len(fs) |->
                 IF i \in D THEN [fs[i] EXCEPT !.deleted_at = t] ELSE fs[i]]

\* restore without the check of the parent.
restore_allowed_Always(fs, id) == TRUE

\* Folder.soft_delete, the files: the active files of the folder and of its
\* active descendants get the same deleted_at.
soft_delete_files(fs, fls, id, t) ==
    IF ~IsActive(fs, id) THEN fls
    ELSE LET D == {id} \cup get_descendants(fs, id)
         IN  [k \in 1..Len(fls) |->
                 IF fls[k].folder \in D /\ fls[k].deleted_at = NULL
                 THEN [fls[k] EXCEPT !.deleted_at = t] ELSE fls[k]]

\* Folder.restore may go ahead: no parent, or an active one.
restore_allowed(fs, id) ==
    \/ fs[id].parent = NULL
    \/ ~Exists(fs, fs[id].parent)
    \/ IsActive(fs, fs[id].parent)

\* restore that clears deleted_at on every descendant.
restore_Everything(fs, id) ==
    IF IsActive(fs, id) THEN fs
    ELSE LET D == {id} \cup all_descendants(fs, id)
         IN  [i \in 1..Len(fs) |->
                 IF i \in D THEN [fs[i] EXCEPT !.deleted_at = NULL] ELSE fs[i]]

\* Folder.restore: the folder and the descendants deleted in the same cascade
\* (the same deleted_at) become active; an active folder is left alone.
restore(fs, id) ==
    IF IsActive(fs, id) THEN fs
    ELSE LET t == fs[id].deleted_at
             D == {id} \cup {d \in all_descendants(fs, id) : fs[d].deleted_at = t}
         IN  [i \in 1..Len(fs) |->
                 IF i \in D THEN [fs[i] EXCEPT !.deleted_at = NULL] ELSE fs[i]]

\* restore of the files of the folder itself only.
restore_files_FolderOnly(fs, fls, id) ==
    IF IsActive(fs, id) THEN fls
    ELSE [k \in 1..Len(fls) |->
             IF fls[k].folder = id /\ fls[k].deleted_at = fs[id].deleted_at
             THEN [fls[k] EXCEPT !.deleted_at = NULL] ELSE fls[k]]

\* Folder.restore, the files: the files of the folder and of its descendants
\* deleted in the same cascade become active.
restore_files(fs, fls, id) ==
    IF IsActive(fs, id) THEN fls
    ELSE LET t == fs[id].deleted_at
             D == {id} \cup all_descendants(fs, id)
         IN  [k \in 1..Len(fls) |->
                 IF fls[k].folder \in D /\ fls[k].deleted_at = t
                 THEN [fls[k] EXCEPT !.deleted_at = NULL] ELSE fls[k]]

\* ----------------------------------------------------- cascade, by steps

\* No transaction is open.
NoTxn ==
    [op |-> "none", id |-> NULL, t |-> NULL, todo |-> {}, aborted |-> FALSE,
     work |-> [folders |-> <<>>, files |-> <<>>],
     snap |-> [folders |-> <<>>, files |-> <<>>]]

\* The rows a cascade on folder id writes: for a soft delete the folder, its
\* active descendants and their active files; for a restore the folder, its
\* descendants with its deleted_at and the files with that deleted_at.
cascade_members(fs, fls, op, id) ==
    LET t == fs[id].deleted_at
        D == IF op = "delete"
             THEN {id} \cup get_descendants(fs, id)
             ELSE {id} \cup {d \in all_descendants(fs, id) : fs[d].deleted_at = t}
        F == IF op = "delete" THEN D ELSE {id} \cup all_descendants(fs, id)
    IN  {<<"folder", i>> : i \in D}
        \cup {<<"file", k>> : k \in {j \in 1..Len(fls) :
                                       fls[j].folder \in F /\ fls[j].deleted_at = t}}

\* The row the cascade writes next: the folders in the order of their ids,
\* then the files.
cascade_next(todo) ==
    LET kind == IF \E m \in todo : m[1] = "folder" THEN "folder" ELSE "file"
    IN  CHOOSE m \in todo :
            /\ m[1] = kind
            /\ \A n \in todo : n[1] = kind => m[2] <= n[2]

\* One write of the cascade, on the rows the transaction sees.
cascade_write(w, m, stamp) ==
    IF m[1] = "folder"
    THEN [w EXCEPT !.folders[m[2]].deleted_at = stamp]
    ELSE [w EXCEPT !.files[m[2]].deleted_at = stamp]

\* Every write lands in the store at once: no transaction around the cascade.
uncommitted_Autocommit(store, work) == work

\* What the store holds of the writes of an open transaction: nothing, until
\* the commit.
uncommitted(store, work) == store

\* ------------------------------------------------------- requests in flight

Procs == {"r1", "r2"}

\* A request slot with no request in it.
Idle ==
    [pc |-> "idle", op |-> "none", u |-> "u1", id |-> NULL, p |-> NULL,
     name |-> <<>>, obj |-> [user |-> "u1", name |-> <<>>, parent |-> NULL,
                             deleted_at |-> NULL]]

\* ------------------------------------------------------------ responses

\* What the last request was, the folder it named and how it was answered.
Resp(op, id, result) == [op |-> op, id |-> id, result |-> result]

\* ------------------------------------------------------------ serializers

\* A serializer CharField trims the value and refuses a blank one.
CharFieldBlank(name) == Strip(name) = <<>>

\* validate_name without the check of the characters.
validate_name_fails_BlankOnly(value) == Strip(value) = <<>>

\* FolderCreateSerializer.validate_name: the value it refuses.
validate_name_fails(value) == Strip(value) = <<>> \/ HasInvalidChar(value)

\* FolderCreateSerializer.validate_name: the value it returns.
validate_name(value) == Strip(value)

\* validate_parent without its deleted_at check.
validate_parent_NoDeletedCheck(fs, u, p) ==
    IF p = NULL THEN "OK"
    ELSE IF fs[p].user # u THEN "ParentOwnershipMismatch"
    ELSE "OK"

\* FolderCreateSerializer.validate_parent.
validate_parent(fs, u, p) ==
    IF p = NULL THEN "OK"
    ELSE IF fs[p].user # u THEN "ParentOwnershipMismatch"
    ELSE IF fs[p].deleted_at # NULL THEN "ParentDeleted"
    ELSE "OK"

\* FolderCreateSerializer.validate: an active folder of the user with this
\* name, compared case-insensitively, exists under the parent.
NameTaken(fs, u, p, name) ==
    \E i \in 1..Len(fs) :
        /\ fs[i].user = u
        /\ fs[i].parent = p
        /\ IExact(fs[i].name, name)
        /\ IsActive(fs, i)

\* FolderCreateSerializer.is_valid: the field validators in the order of
\* Meta.fields (name, parent), then validate.
CreateResult(fs, u, name, p) ==
    IF CharFieldBlank(name) \/ validate_name_fails(Strip(name)) THEN "ValidationError"
    ELSE IF p # NULL /\ ~Exists(fs, p) THEN "ParentNotFound"
    ELSE IF validate_parent(fs, u, p) # "OK" THEN validate_parent(fs, u, p)
    ELSE IF NameTaken(fs, u, p, validate_name(Strip(name))) THEN "NameConflict"
    ELSE "Created"

\* Sum('file_size') over the active files of one folder, 0 when there is none.
RECURSIVE SumFileSize(_, _)
SumFileSize(fls, K) ==
    IF K = {} THEN 0
    ELSE LET k == CHOOSE x \in K : TRUE
         IN  fls[k].file_size + SumFileSize(fls, K \ {k})

files_size(fls, f) ==
    SumFileSize(fls, {k \in 1..Len(fls) : fls[k].folder = f /\ fls[k].deleted_at = NULL})

\* The loop of get_total_size over the folders S.
RECURSIVE SubfoldersSize(_, _, _)
SubfoldersSize(fs, fls, S) ==
    IF S = {} THEN 0
    ELSE LET subfolder == CHOOSE x \in S : TRUE
         IN  (IF fs[subfolder].deleted_at = NULL THEN files_size(fls, subfolder) ELSE 0)
             + SubfoldersSize(fs, fls, S \ {subfolder})

\* get_total_size without the loop over the descendants.
get_total_size_DirectOnly(fs, fls, id) == files_size(fls, id)

\* FolderDetailSerializer.get_total_size: the active files of the folder, then
\* those of each descendant that is not deleted.
get_total_size(fs, fls, id) ==
    files_size(fls, id) + SubfoldersSize(fs, fls, get_descendants(fs, id))

\* MoveFolderSerializer.validate_parent_id.
validate_parent_id(fs, u, p) ==
    p = NULL \/ (Exists(fs, p) /\ fs[p].user = u /\ IsActive(fs, p))

\* FolderDetailSerializer (the fields of FolderSerializer.Meta): name is a
\* CharField, parent a primary key of any Folder row, or null.
UpdateResult(fs, fields, name, p) ==
    IF fields \in {"name", "both"} /\ CharFieldBlank(name) THEN "ValidationError"
    ELSE IF fields \in {"parent", "both"} /\ p # NULL /\ ~Exists(fs, p)
         THEN "ParentNotFound"
    ELSE "OK"

\* validate_folder_id without the deleted_at filter of its query.
validate_folder_id_AnyState(fs, u, folder_id) ==
    folder_id = NULL \/ (Exists(fs, folder_id) /\ fs[folder_id].user = u)

\* MoveFileToFolderSerializer.validate_folder_id.
validate_folder_id(fs, u, folder_id) ==
    folder_id = NULL \/ (Exists(fs, folder_id) /\ fs[folder_id].user = u
                         /\ IsActive(fs, folder_id))

\* ------------------------------------------------------------------ views

\* move_file_to_folder: the caller's active file.
FileLookup(fls, u, k) ==
    k \in 1..Len(fls) /\ fls[k].user = u /\ fls[k].deleted_at = NULL

\* The queryset without its deleted_at filter.
DetailQueryset_AnyState(fs, u, id) == Exists(fs, id) /\ fs[id].user = u

\* FolderDetailView.get_queryset: the caller's active folders.
DetailQueryset(fs, u, id) == Exists(fs, id) /\ fs[id].user = u /\ IsActive(fs, id)

\* MoveFolderView.post: the folder to move.
MoveFolderLookup(fs, u, id) == Exists(fs, id) /\ fs[id].user = u /\ IsActive(fs, id)

\* MoveFolderView.post: the new parent.
MoveParentLookup(fs, u, p) == Exists(fs, p) /\ fs[p].user = u /\ IsActive(fs, p)

\* The check without the walk over the ancestors.
IsCircular_SelfOnly(fs, id, p) == id = p

\* The check without the comparison with the folder itself.
IsCircular_AncestorsOnly(fs, id, p) == InSeq(id, get_ancestors(fs, p))

\* MoveFolderView.post: the check for a circular reference.
IsCircular(fs, id, p) == InSeq(id, get_ancestors(fs, p)) \/ id = p

\* The lookup without its deleted_at filter.
RestoreLookup_AnyState(fs, u, id) == Exists(fs, id) /\ fs[id].user = u

\* restore_folder: the caller's deleted folders.
RestoreLookup(fs, u, id) == Exists(fs, id) /\ fs[id].user = u /\ ~IsActive(fs, id)

\* The queryset without the filter on the parent.
ListFolders_NoParentFilter(fs, u, parent) ==
    {i \in 1..Len(fs) : fs[i].user = u /\ IsActive(fs, i)}

\* FolderListCreateView.get_queryset with the query parameter parent ('root'
\* is NULL here): the rows it holds; order_by('name') puts them in order.
ListFolders(fs, u, parent) ==
    {i \in 1..Len(fs) : fs[i].user = u /\ IsActive(fs, i) /\ fs[i].parent = parent}

\* The subfolders without the deleted_at filter.
contents_subfolders_AnyState(fs, id) == {c \in 1..Len(fs) : fs[c].parent = id}

\* folder_contents, 'subfolders': the active folders whose parent is the folder.
contents_subfolders(fs, id) == {c \in 1..Len(fs) : fs[c].parent = id /\ IsActive(fs, c)}

\* folder_contents, 'files': the active files of the folder.
contents_files(fls, id) ==
    {k \in 1..Len(fls) : fls[k].folder = id /\ fls[k].deleted_at = NULL}

\* FolderTreeSerializer over the folders S, one after the other: each folder,
\* then the nesting of its active subfolders (get_subfolders); the ids of the
\* nodes of the nested structure, in the order they are written.
RECURSIVE tree_nodes(_, _)
tree_nodes(fs, S) ==
    IF S = {} THEN <<>>
    ELSE LET f == CHOOSE x \in S : \A y \in S : x <= y
         IN  <<f>> \o tree_nodes(fs, {c \in 1..Len(fs) : fs[c].parent = f /\ IsActive(fs, c)})
                  \o tree_nodes(fs, S \ {f})

\* FolderTreeView.get, 'folders': the nesting under the caller's active root folders.
FolderTree(fs, u) ==
    tree_nodes(fs, {i \in 1..Len(fs) : fs[i].user = u /\ IsActive(fs, i)
                                         /\ fs[i].parent = NULL})

\* FolderTreeView.get, 'total_folders': the count of the caller's active folders.
total_folders(fs, u) == Cardinality({i \in 1..Len(fs) : fs[i].user = u /\ IsActive(fs, i)})

\* folder_contents: the caller's active folder.
ContentsLookup(fs, u, id) == Exists(fs, id) /\ fs[id].user = u /\ IsActive(fs, id)

\* folder_breadcrumbs: the caller's active folder.
BreadcrumbsLookup(fs, u, id) == Exists(fs, id) /\ fs[id].user = u /\ IsActive(fs, id)

\* folder_breadcrumbs: the ids of list(folder.get_ancestors()) + [folder].
breadcrumbs(fs, id) == get_ancestors(fs, id) \o <<id>>

\* --------------------------------------------------------------- actions

Init ==
    /\ folders = <<>>
    /\ files = <<>>
    /\ now = 0
    /\ last = Resp("init", NULL, "OK")
    /\ txn = NoTxn
    /\ reqs = [r \in Procs |-> Idle]

\* POST folders/ (FolderListCreateView with FolderCreateSerializer).
CreateFolder(u, name, p) ==
    LET r == CreateResult(folders, u, name, p)
    IN  /\ r = "Created" => Len(folders) < MaxFolders
        /\ folders' =
              IF r = "Created"
              THEN Append(folders, [user |-> u, name |-> validate_name(Strip(name)),
                                    parent |-> p, deleted_at |-> NULL])
              ELSE folders
        /\ last' = Resp("create", IF r = "Created" THEN Len(folders) + 1 ELSE NULL, r)
        /\ UNCHANGED <<files, now, txn, reqs>>

\* PUT/PATCH folders/<id>/ (FolderDetailView with FolderDetailSerializer).
UpdateFolder(u, id, fields, name, p) ==
    LET r == IF ~DetailQueryset(folders, u, id) THEN "NotFound"
             ELSE UpdateResult(folders, fields, name, p)
    IN  /\ folders' =
              IF r = "OK"
              THEN [folders EXCEPT
                      ![id].name = IF fields \in {"name", "both"} THEN Strip(name) ELSE @,
                      ![id].parent = IF fields \in {"parent", "both"} THEN p ELSE @]
              ELSE folders
        /\ last' = Resp("update", id, r)
        /\ UNCHANGED <<files, now, txn, reqs>>

\* MoveFolderView.post up to the assignment: the lookups, the serializer and
\* the check for a circular reference, on the store fs.
MoveResult(fs, u, id, p) ==
    IF ~MoveFolderLookup(fs, u, id) THEN "NotFound"
    ELSE IF ~validate_parent_id(fs, u, p) THEN "ValidationError"
    ELSE IF p = NULL THEN "OK"
    ELSE IF ~MoveParentLookup(fs, u, p) THEN "NotFound"
    ELSE IF IsCircular(fs, id, p) THEN "CycleError"
    ELSE "OK"

\* POST folders/<id>/move/ (MoveFolderView.post).
MoveFolder(u, id, p) ==
    LET r == MoveResult(folders, u, id, p)
    IN  /\ folders' = IF r = "OK" THEN [folders EXCEPT ![id].parent = p] ELSE folders
        /\ last' = Resp("move", id, r)
        /\ UNCHANGED <<files, now, txn, reqs>>

\* DELETE folders/<id>/ (FolderDetailView.perform_destroy).
DeleteFolder(u, id) ==
    LET r == IF ~DetailQueryset(folders, u, id) THEN "NotFound"
             ELSE IF ~IsActive(folders, id) THEN "AlreadyDeleted"
             ELSE "OK"
    IN  /\ r = "OK" => now < MaxTime
        /\ folders' = IF r = "OK" THEN soft_delete(folders, id, now + 1) ELSE folders
        /\ files' = IF r = "OK" THEN soft_delete_files(folders, files, id, now + 1)
                     ELSE files
        /\ now' = IF r = "OK" THEN now + 1 ELSE now
        /\ last' = Resp("delete", id, r)
        /\ UNCHANGED <<txn, reqs>>

\* POST folders/<id>/restore/ (restore_folder).
RestoreFolder(u, id) ==
    LET r == IF ~RestoreLookup(folders, u, id) THEN "NotFound"
             ELSE IF ~restore_allowed(folders, id) THEN "ParentDeleted"
             ELSE "OK"
    IN  /\ folders' = IF r = "OK" THEN restore(folders, id) ELSE folders
        /\ files' = IF r = "OK" THEN restore_files(folders, files, id) ELSE files
        /\ last' = Resp("restore", id, r)
        /\ UNCHANGED <<now, txn, reqs>>

\* The store with MaxFiles unfiled files of u1 (of 1000 bytes, 2000 bytes, ...),
\* uploaded before any folder exists.
InitFiles ==
    /\ folders = <<>>
    /\ files = [k \in FileIds |->
                   [user |-> "u1", folder |-> NULL, file_size |-> 1000 * k,
                    deleted_at |-> NULL]]
    /\ now = 0
    /\ last = Resp("init", NULL, "OK")
    /\ txn = NoTxn
    /\ reqs = [r \in Procs |-> Idle]

\* POST <file_id>/move/ (MoveFileToFolderSerializer, on a file of the caller).
MoveFileToFolder(u, k, folder_id) ==
    LET r == IF ~FileLookup(files, u, k) THEN "NotFound"
             ELSE IF ~validate_folder_id(folders, u, folder_id) THEN "ValidationError"
             ELSE "OK"
    IN  /\ files' = IF r = "OK" THEN [files EXCEPT ![k].folder = folder_id] ELSE files
        /\ last' = Resp("move_file", k, r)
        /\ UNCHANGED <<folders, now, txn, reqs>>

\* MoveFolderView.post up to the save, as request r: the queries and checks
\* run on the store as it is now; the loaded Folder instance waits for its save.
MoveValidate(r, u, id, p) ==
    LET res == MoveResult(folders, u, id, p)
    IN  /\ reqs[r].pc = "idle"
        /\ reqs' = IF res = "OK"
                   THEN [reqs EXCEPT ![r] = [pc |-> "validated", op |-> "move", u |-> u,
                                             id |-> id, p |-> p, name |-> <<>>,
                                             obj |-> folders[id]]]
                   ELSE reqs
        /\ last' = IF res = "OK" THEN last ELSE Resp("move", id, res)
        /\ UNCHANGED <<folders, files, now, txn>>

\* MoveFolderView.post, folder.save() of request r: the row gets the fields of
\* the loaded instance with its new parent.
MoveWrite(r) ==
    /\ reqs[r].pc = "validated" /\ reqs[r].op = "move"
    /\ folders' = [folders EXCEPT ![reqs[r].id] = [reqs[r].obj EXCEPT !.parent = reqs[r].p]]
    /\ last' = Resp("move", reqs[r].id, "OK")
    /\ reqs' = [reqs EXCEPT ![r] = Idle]
    /\ UNCHANGED <<files, now, txn>>

\* POST folders/ up to the insert, as request r: FolderCreateSerializer.is_valid
\* on the store as it is now.
CreateValidate(r, u, name, p) ==
    LET res == CreateResult(folders, u, name, p)
    IN  /\ reqs[r].pc = "idle"
        /\ reqs' = IF res = "Created"
                   THEN [reqs EXCEPT ![r] = [pc |-> "validated", op |-> "create", u |-> u,
                                             id |-> NULL, p |-> p,
                                             name |-> validate_name(Strip(name)),
                                             obj |-> Idle.obj]]
                   ELSE reqs
        /\ last' = IF res = "Created" THEN last ELSE Resp("create", NULL, res)
        /\ UNCHANGED <<folders, files, now, txn>>

\* POST folders/, perform_create of request r: serializer.save(user=...).
CreateWrite(r) ==
    /\ reqs[r].pc = "validated" /\ reqs[r].op = "create"
    /\ Len(folders) < MaxFolders
    /\ folders' = Append(folders, [user |-> reqs[r].u, name |-> reqs[r].name,
                                   parent |-> reqs[r].p, deleted_at |-> NULL])
    /\ last' = Resp("create", Len(folders) + 1, "Created")
    /\ reqs' = [reqs EXCEPT ![r] = Idle]
    /\ UNCHANGED <<files, now, txn>>

\* A soft delete or a restore that runs its cascade in a transaction, the
\* opening step: the lookup of the view, then the set of rows to write.
CascadeBegin(u, op, id) ==
    LET r == IF op = "delete"
             THEN (IF ~DetailQueryset(folders, u, id) THEN "NotFound" ELSE "OK")
             ELSE (IF ~RestoreLookup(folders, u, id) THEN "NotFound"
                   ELSE IF ~restore_allowed(folders, id) THEN "ParentDeleted"
                   ELSE "OK")
    IN  /\ txn.op = "none"
        /\ (r = "OK" /\ op = "delete") => now < MaxTime
        /\ txn' = IF r = "OK"
                  THEN [op |-> op, id |-> id,
                        t |-> IF op = "delete" THEN now + 1 ELSE NULL,
                        todo |-> cascade_members(folders, files, op, id),
                        aborted |-> FALSE,
                        work |-> [folders |-> folders, files |-> files],
                        snap |-> [folders |-> folders, files |-> files]]
                  ELSE txn
        /\ last' = IF r = "OK" THEN last ELSE Resp(op, id, r)
        /\ r = "OK" \/ last' # last
        /\ UNCHANGED <<folders, files, now, reqs>>

\* The cascade writes one of its rows.
CascadeStep ==
    /\ txn.op \in {"delete", "restore"} /\ ~txn.aborted
    /\ txn.todo # {}
    /\ LET m == cascade_next(txn.todo)
           w == cascade_write(txn.work, m, txn.t)
       IN  /\ txn' = [txn EXCEPT !.todo = @ \ {m}, !.work = w]
           /\ folders' = uncommitted(folders, w.folders)
           /\ files' = uncommitted(files, w.files)
    /\ UNCHANGED <<now, last, reqs>>

\* A write of the cascade fails: the transaction is aborted.
CascadeFail ==
    /\ txn.op \in {"delete", "restore"} /\ ~txn.aborted
    /\ txn.todo # {}
    /\ txn' = [txn EXCEPT !.aborted = TRUE]
    /\ UNCHANGED <<folders, files, now, last, reqs>>

\* The aborted transaction is rolled back and the request answered with the error.
CascadeRollback ==
    /\ txn.aborted
    /\ txn' = NoTxn
    /\ last' = Resp(txn.op, txn.id, "Error")
    /\ UNCHANGED <<folders, files, now, reqs>>

\* Every row is written: the transaction commits.
CascadeCommit ==
    /\ txn.op \in {"delete", "restore"} /\ ~txn.aborted
    /\ txn.todo = {}
    /\ folders' = txn.work.folders
    /\ files' = txn.work.files
    /\ now' = IF txn.op = "delete" THEN txn.t ELSE now
    /\ last' = Resp(txn.op, txn.id, "OK")
    /\ txn' = NoTxn
    /\ UNCHANGED reqs

\* The requests of the callers US: names from NS, parents from any id or null.
CreateBy(US, NS) ==
    \E u \in US, name \in NS, p \in ParentArgs : CreateFolder(u, name, p)

\* PATCH with the name alone.
RenameBy(US, NS) ==
    \E u \in US, id \in FolderIds, name \in NS : UpdateFolder(u, id, "name", name, NULL)

\* PATCH with the parent alone.
ReparentBy(US) ==
    \E u \in US, id \in FolderIds, p \in ParentArgs :
        UpdateFolder(u, id, "parent", <<>>, p)

MoveBy(US) == \E u \in US, id \in FolderIds, p \in ParentArgs : MoveFolder(u, id, p)

DeleteBy(US) == \E u \in US, id \in FolderIds : DeleteFolder(u, id)

RestoreBy(US) == \E u \in US, id \in FolderIds : RestoreFolder(u, id)

MoveFileBy(US) ==
    \E u \in US, k \in FileIds, folder_id \in ParentArgs : MoveFileToFolder(u, k, folder_id)

\* One owner, one name: create, move, soft-delete, restore.
Next ==
    \/ CreateBy({"u1"}, {<<"a">>})
    \/ MoveBy({"u1"})
    \/ DeleteBy({"u1"})
    \/ RestoreBy({"u1"})

Spec == Init /\ [][Next]_vars

\* Two owners, one name: create, move, soft-delete, restore.
NextOwners ==
    \/ CreateBy(Users, {<<"a">>})
    \/ MoveBy(Users)
    \/ DeleteBy(Users)
    \/ RestoreBy(Users)

SpecOwners == Init /\ [][NextOwners]_vars

\* Two owners, one name: create, update (the name, the parent), move.
NextUpdate ==
    \/ CreateBy(Users, {<<"a">>})
    \/ RenameBy(Users, {<<"a">>})
    \/ ReparentBy(Users)
    \/ MoveBy(Users)

SpecUpdate == Init /\ [][NextUpdate]_vars

\* One owner, the names a and A: create, move, soft-delete, restore.
NextNames ==
    \/ CreateBy({"u1"}, {<<"a">>, <<"A">>})
    \/ MoveBy({"u1"})
    \/ DeleteBy({"u1"})
    \/ RestoreBy({"u1"})

SpecNames == Init /\ [][NextNames]_vars

\* One owner, one name, with files: create, soft-delete, restore, file move.
NextFiles ==
    \/ CreateBy({"u1"}, {<<"a">>})
    \/ DeleteBy({"u1"})
    \/ RestoreBy({"u1"})
    \/ MoveFileBy({"u1"})

SpecFiles == InitFiles /\ [][NextFiles]_vars

\* A store after DeepChain + 2 creates of u1: the folders 1..DeepChain are a
\* chain (folder i under folder i - 1), so that the last one has more than
\* MaxDepth ancestors; the two folders after them are root folders.
DeepChain == MaxDepth + 2

DeepMovers == {DeepChain + 1, DeepChain + 2}

DeepParents == {NULL, 1, 2, DeepChain - 1, DeepChain} \cup DeepMovers

InitDeep ==
    /\ folders = [i \in 1..(DeepChain + 2) |->
                     [user |-> "u1",
                      name |-> IF i = DeepChain + 1 THEN <<"b">>
                               ELSE IF i = DeepChain + 2 THEN <<"c">> ELSE <<"a">>,
                      parent |-> IF i = 1 \/ i > DeepChain THEN NULL ELSE i - 1,
                      deleted_at |-> NULL]]
    /\ files = <<>>
    /\ now = 0
    /\ last = Resp("init", NULL, "OK")
    /\ txn = NoTxn
    /\ reqs = [r \in Procs |-> Idle]

\* Moves of the two root folders into and out of the deep chain.
NextDeep == \E id \in DeepMovers, p \in DeepParents : MoveFolder("u1", id, p)

SpecDeep == InitDeep /\ [][NextDeep]_vars

\* One owner, one name: create, update of the parent, move, soft-delete, restore.
NextTrash ==
    \/ CreateBy({"u1"}, {<<"a">>})
    \/ ReparentBy({"u1"})
    \/ MoveBy({"u1"})
    \/ DeleteBy({"u1"})
    \/ RestoreBy({"u1"})

SpecTrash == Init /\ [][NextTrash]_vars

\* One owner, with files; soft delete and restore run by steps and may fail,
\* one request at a time.
NextCascade ==
    \/ txn.op = "none" /\ CreateBy({"u1"}, {<<"a">>})
    \/ txn.op = "none" /\ MoveFileBy({"u1"})
    \/ \E id \in FolderIds, op \in {"delete", "restore"} : CascadeBegin("u1", op, id)
    \/ CascadeStep
    \/ CascadeFail
    \/ CascadeRollback
    \/ CascadeCommit

SpecCascade == InitFiles /\ [][NextCascade]_vars

\* One owner, one name: creates in one step, moves of two concurrent requests
\* in two steps each.
NextRaceMove ==
    \/ CreateBy({"u1"}, {<<"a">>})
    \/ \E r \in Procs, id \in FolderIds, p \in ParentArgs : MoveValidate(r, "u1", id, p)
    \/ \E r \in Procs : MoveWrite(r)

SpecRaceMove == Init /\ [][NextRaceMove]_vars

\* One owner, one name: the creates and moves of one request at a time in two
\* steps each, while soft deletes run in one step.
NextRaceDelete ==
    \/ \E p \in ParentArgs : CreateValidate("r1", "u1", <<"a">>, p)
    \/ CreateWrite("r1")
    \/ \E id \in FolderIds, p \in ParentArgs : MoveValidate("r1", "u1", id, p)
    \/ MoveWrite("r1")
    \/ DeleteBy({"u1"})

SpecRaceDelete == Init /\ [][NextRaceDelete]_vars

\* One owner, the names a and A: the creates of two concurrent requests in two
\* steps each.
NextRaceCreate ==
    \/ \E r \in Procs, name \in {<<"a">>, <<"A">>}, p \in ParentArgs :
          CreateValidate(r, "u1", name, p)
    \/ \E r \in Procs : CreateWrite(r)

SpecRaceCreate == Init /\ [][NextRaceCreate]_vars

\* With files of u1: creates and file moves of two owners; soft deletes and
\* restores of u1.
NextFileMoves ==
    \/ CreateBy(Users, {<<"a">>})
    \/ DeleteBy({"u1"})
    \/ RestoreBy({"u1"})
    \/ MoveFileBy(Users)

SpecFileMoves == InitFiles /\ [][NextFileMoves]_vars

\* One owner, one name, with files: create, move, file move.
NextMoveFiles ==
    \/ CreateBy({"u1"}, {<<"a">>})
    \/ MoveBy({"u1"})
    \/ MoveFileBy({"u1"})

SpecMoveFiles == InitFiles /\ [][NextMoveFiles]_vars

\* The names of the create requests: empty, blank, with a forbidden character,
\* the name a with blanks around it, and the name A.
CreateNames == {<<>>, <<" ">>, <<"a", "/">>, <<" ", "a", " ">>, <<"A">>}

\* Every kind of name: creates of two owners, soft deletes of u1.
NextCreate ==
    \/ CreateBy(Users, CreateNames)
    \/ DeleteBy({"u1"})

SpecCreate == Init /\ [][NextCreate]_vars

\* The names of the rename requests: the name A, a name with a forbidden
\* character and a blank one.
RenameNames == {<<"A">>, <<"a", "/">>, <<" ">>}

\* One owner: creates with the names a and b, renames.
NextRename ==
    \/ CreateBy({"u1"}, {<<"a">>, <<"b">>})
    \/ RenameBy({"u1"}, RenameNames)

SpecRename == Init /\ [][NextRename]_vars

\* ================================================================ claims

\* The folders reached from the folders S by parent references; with
\* activeOnly, only the parents of active folders are followed.
RECURSIVE UpVia(_, _, _)
UpVia(fs, S, activeOnly) ==
    LET from == {x \in S : activeOnly => IsActive(fs, x)}
        T == S \cup ({fs[x].parent : x \in from} \cap (1..Len(fs)))
    IN  IF T = S THEN S ELSE UpVia(fs, T, activeOnly)

\* The folders above i: its parent, its parent's parent, and so on.
Above(fs, i, activeOnly) == UpVia(fs, {fs[i].parent} \cap (1..Len(fs)), activeOnly)

\* The active folders below f along chains of active folders.
ActiveBelow(fs, f) == {d \in 1..Len(fs) : IsActive(fs, d) /\ f \in Above(fs, d, TRUE)}

\* Folder id of the store belongs to u.
Owns(fs, u, id) == Exists(fs, id) /\ fs[id].user = u

\* ---------------------------------------------------------------------- C1
\* C1: after any sequence of folder moves (accepted or rejected) on a forest
\* built by creates, no active folder is its own ancestor: following parent
\* references from an active folder never comes back to it.
C1_AcyclicUnderMove ==
    \A i \in 1..Len(folders) : IsActive(folders, i) => i \notin Above(folders, i, FALSE)

\* A folder with a child has just been moved under another folder.
C1_Witness ==
    /\ last.op = "move" /\ last.result = "OK"
    /\ folders[last.id].parent # NULL
    /\ \E j \in 1..Len(folders) : folders[j].parent = last.id

\* ---------------------------------------------------------------------- C2
\* C2: a move of an active folder F of the caller to a target P of the caller
\* is answered with the cycle error when P is F or F is above P, and then no
\* folder of the store changes.
C2_CycleRejected ==
    [][\A u \in Users, id \in FolderIds, p \in FolderIds :
          ( /\ last'.op = "move" /\ last'.id = id
            /\ Owns(folders, u, id) /\ IsActive(folders, id)
            /\ Owns(folders, u, p) /\ IsActive(folders, p)
            /\ (p = id \/ id \in Above(folders, p, FALSE))
            /\ MoveFolder(u, id, p) )
          => (last'.result = "CycleError" /\ folders' = folders)]_vars

\* A move of a folder that has a folder below it was answered with the cycle error.
C2_Witness ==
    /\ last.op = "move" /\ last.result = "CycleError"
    /\ \E d \in 1..Len(folders) : IsActive(folders, d) /\ last.id \in Above(folders, d, FALSE)

\* ---------------------------------------------------------------------- C3
\* C3: after any sequence of create, update, move, delete and restore the parent
\* relation among the active folders is a forest per owner: no active folder is
\* above itself and no active folder has a parent of another owner.
C3_ForestAllOperations ==
    \A i \in 1..Len(folders) :
        IsActive(folders, i) =>
            /\ i \notin Above(folders, i, TRUE)
            /\ Exists(folders, folders[i].parent) =>
                   folders[folders[i].parent].user = folders[i].user

\* ---------------------------------------------------------------------- C4
\* C4: after any sequence of create, move, soft-delete and restore every active
\* folder with a parent has the owner of its parent, and its parent is active.
C4_OwnershipConsistency ==
    \A i \in 1..Len(folders) :
        (IsActive(folders, i) /\ folders[i].parent # NULL) =>
            /\ Exists(folders, folders[i].parent)
            /\ folders[folders[i].parent].user = folders[i].user
            /\ IsActive(folders, folders[i].parent)

\* A folder below another one has just been restored while both owners hold
\* folders and another folder is still deleted.
C4_Witness ==
    /\ last.op = "restore" /\ last.result = "OK"
    /\ folders[last.id].parent # NULL
    /\ \E i, j \in 1..Len(folders) : folders[i].user # folders[j].user
    /\ \E k \in 1..Len(folders) : ~IsActive(folders, k)

\* ---------------------------------------------------------------------- C5
\* C5: no two distinct active folders of one owner under the same parent (null
\* for the root level) have names that are equal case-insensitively.
C5_SiblingNamesUnique ==
    \A i, j \in 1..Len(folders) :
        ( /\ i # j
          /\ IsActive(folders, i) /\ IsActive(folders, j)
          /\ folders[i].user = folders[j].user
          /\ folders[i].parent = folders[j].parent )
        => ~IExact(folders[i].name, folders[j].name)

\* ---------------------------------------------------------------------- C6
\* C6: a soft delete of an active folder F leaves F and every folder that was an
\* active descendant of F deleted with one and the same deleted_at, and leaves
\* every other folder as it was.
C6_CascadeDelete ==
    [][\A u \in Users, id \in FolderIds :
          ( /\ last'.op = "delete" /\ last'.id = id
            /\ DeleteFolder(u, id) /\ Owns(folders, u, id) /\ IsActive(folders, id) )
          => LET D == {id} \cup ActiveBelow(folders, id)
             IN  /\ Len(folders') = Len(folders)
                 /\ folders'[id].deleted_at # NULL
                 /\ \A i \in 1..Len(folders) :
                        IF i \in D
                        THEN folders'[i].deleted_at = folders'[id].deleted_at
                        ELSE folders'[i] = folders[i]]_vars

\* A delete has stamped a folder and a folder below it alike, beside a folder
\* that is not part of the cascade.
C6_Witness ==
    /\ last.op = "delete" /\ last.result = "OK"
    /\ \E d \in 1..Len(folders) :
          /\ last.id \in Above(folders, d, FALSE)
          /\ folders[d].deleted_at = folders[last.id].deleted_at
    /\ \E e \in 1..Len(folders) : folders[e].deleted_at # folders[last.id].deleted_at

\* ---------------------------------------------------------------------- C7
\* C7: a restore of a deleted folder F with deleted_at t (its parent null or
\* active) makes active exactly F, the folders below F whose deleted_at is t and
\* the files in F or below it whose deleted_at is t; every other folder and file,
\* a descendant deleted at another time among them, stays as it was.
C7_SelectiveRestore ==
    [][\A u \in Users, id \in FolderIds :
          ( /\ last'.op = "restore" /\ last'.id = id
            /\ RestoreFolder(u, id)
            /\ Owns(folders, u, id) /\ ~IsActive(folders, id)
            /\ (Exists(folders, folders[id].parent) => IsActive(folders, folders[id].parent)) )
          => LET t == folders[id].deleted_at
                 Sub == {id} \cup {d \in 1..Len(folders) : id \in Above(folders, d, FALSE)}
             IN  /\ Len(folders') = Len(folders) /\ Len(files') = Len(files)
                 /\ \A i \in 1..Len(folders) :
                        folders'[i] =
                            IF i \in Sub /\ folders[i].deleted_at = t
                            THEN [folders[i] EXCEPT !.deleted_at = NULL]
                            ELSE folders[i]
                 /\ \A k \in 1..Len(files) :
                        files'[k] =
                            IF files[k].folder \in Sub /\ files[k].deleted_at = t
                            THEN [files[k] EXCEPT !.deleted_at = NULL]
                            ELSE files[k]]_vars

\* A restore has made a folder, a folder below it and a file of that folder
\* active, and has left deleted a folder below it that was deleted at another time.
C7_Witness ==
    /\ last.op = "restore" /\ last.result = "OK"
    /\ \E d, e \in 1..Len(folders) :
          /\ last.id \in Above(folders, d, FALSE) /\ IsActive(folders, d)
          /\ last.id \in Above(folders, e, FALSE) /\ ~IsActive(folders, e)
          /\ \E k \in 1..Len(files) :
                files[k].folder = d /\ files[k].deleted_at = NULL

\* A restore has left deleted a file of a folder below the restored one that
\* was deleted at another time.
C7_WitnessFileKept ==
    /\ last.op = "restore" /\ last.result = "OK"
    /\ \E e \in 1..Len(folders), k \in 1..Len(files) :
          /\ last.id \in Above(folders, e, FALSE) /\ ~IsActive(folders, e)
          /\ files[k].folder = e /\ files[k].deleted_at = folders[e].deleted_at

\* ---------------------------------------------------------------------- C8
\* C8: a restore of a deleted folder whose parent is deleted is answered with
\* ParentDeleted and changes no folder; a restore of a deleted folder with no
\* parent or an active parent succeeds.
C8_RestoreNeedsActiveParent ==
    [][\A u \in Users, id \in FolderIds :
          ( /\ last'.op = "restore" /\ last'.id = id
            /\ RestoreFolder(u, id) /\ Owns(folders, u, id) /\ ~IsActive(folders, id) )
          => IF /\ Exists(folders, folders[id].parent)
                /\ ~IsActive(folders, folders[id].parent)
             THEN last'.result = "ParentDeleted" /\ folders' = folders
             ELSE last'.result = "OK" /\ IsActive(folders', id)]_vars

\* A restore was answered with ParentDeleted.
C8_Witness ==
    /\ last.op = "restore" /\ last.result = "ParentDeleted"
    /\ ~IsActive(folders, last.id)
    /\ ~IsActive(folders, folders[last.id].parent)

\* ---------------------------------------------------------------------- C9
\* C9 as claimed: a soft delete of an already deleted folder is answered with
\* AlreadyDeleted and writes nothing.
C9_AlreadyDeletedOutcome ==
    [][\A u \in Users, id \in FolderIds :
          ( /\ last'.op = "delete" /\ last'.id = id
            /\ DeleteFolder(u, id) /\ Owns(folders, u, id) /\ ~IsActive(folders, id) )
          => (last'.result = "AlreadyDeleted" /\ folders' = folders /\ now' = now)]_vars

\* C9 as amended: a soft delete of an already deleted folder is answered with
\* NotFound and writes nothing, so the deleted_at of the folder and of its
\* descendants are those of the first delete.
C9_DeleteTwiceNotFound ==
    [][\A u \in Users, id \in FolderIds :
          ( /\ last'.op = "delete" /\ last'.id = id
            /\ DeleteFolder(u, id) /\ Owns(folders, u, id) /\ ~IsActive(folders, id) )
          => (last'.result = "NotFound" /\ folders' = folders /\ now' = now)]_vars

\* A delete of a deleted folder of the store was answered with NotFound.
C9_Witness ==
    /\ last.op = "delete" /\ last.result = "NotFound"
    /\ Exists(folders, last.id) /\ ~IsActive(folders, last.id)

\* --------------------------------------------------------------------- C10
\* C10 as claimed: a restore of an active folder is answered with the folder
\* (no error) and changes nothing.
C10_RestoreActiveNoError ==
    [][\A u \in Users, id \in FolderIds :
          ( /\ last'.op = "restore" /\ last'.id = id
            /\ RestoreFolder(u, id) /\ Owns(folders, u, id) /\ IsActive(folders, id) )
          => (last'.result = "OK" /\ folders' = folders)]_vars

\* C10 as amended: a restore of an active folder is answered with NotFound and
\* changes nothing.
C10_RestoreActiveNotFound ==
    [][\A u \in Users, id \in FolderIds :
          ( /\ last'.op = "restore" /\ last'.id = id
            /\ RestoreFolder(u, id) /\ Owns(folders, u, id) /\ IsActive(folders, id) )
          => (last'.result = "NotFound" /\ folders' = folders)]_vars

\* A restore of an active folder of the store was answered with NotFound.
C10_Witness ==
    /\ last.op = "restore" /\ last.result = "NotFound"
    /\ Exists(folders, last.id) /\ IsActive(folders, last.id)

\* --------------------------------------------------------------------- C11
\* C11: after a successful move of folder F from its parent P0 to P1, the move
\* of F back to P0 by the same caller succeeds and gives back the store of
\* before the first move (parents, names and deleted_at of every folder).
C11_MoveRoundTrip ==
    [][\A u \in Users, id \in FolderIds, p1 \in ParentArgs :
          ( /\ last'.op = "move" /\ last'.id = id /\ last'.result = "OK"
            /\ MoveFolder(u, id, p1) )
          => LET p0 == folders[id].parent
             IN  /\ MoveResult(folders', u, id, p0) = "OK"
                 /\ [folders' EXCEPT ![id].parent = p0] = folders]_vars

\* --------------------------------------------------------------------- C12
\* C12: a request of a caller who does not own the folder it names (as the
\* folder to get, update, delete, restore, move, list or trace, or as the parent
\* of a create, an update or a move) is rejected and leaves the store unchanged,
\* so that no folder ever has a parent of another owner.
C12_OwnerScoping ==
    [][\A u \in Users, g \in FolderIds :
          (Exists(folders, g) /\ folders[g].user # u) =>
              /\ ~DetailQueryset(folders, u, g)
              /\ ~ContentsLookup(folders, u, g)
              /\ ~BreadcrumbsLookup(folders, u, g)
              /\ ( /\ last'.id = g
                   /\ \/ \E p \in ParentArgs :
                            \/ MoveFolder(u, g, p)
                            \/ UpdateFolder(u, g, "parent", <<>>, p)
                      \/ UpdateFolder(u, g, "name", <<"a">>, NULL)
                      \/ DeleteFolder(u, g)
                      \/ RestoreFolder(u, g) )
                 => (last'.result = "NotFound" /\ folders' = folders)
              /\ ( \/ CreateFolder(u, <<"a">>, g)
                   \/ \E id \in FolderIds :
                         /\ last'.id = id
                         /\ \/ MoveFolder(u, id, g)
                            \/ UpdateFolder(u, id, "parent", <<>>, g) )
                 => ( /\ last'.result \notin {"OK", "Created"}
                      /\ folders' = folders )]_vars

\* --------------------------------------------------------------------- C13
\* C13: while a folder is deleted, a step other than a restore leaves its
\* record as it is, a move, update or delete that names it is answered with
\* NotFound, and no folder and no file comes to have it as parent: it is not
\* accepted as the parent of a create nor as the target of a move.
C13_DeletedReadOnly ==
    [][\A d \in 1..Len(folders) :
          ~IsActive(folders, d) =>
              /\ last'.op # "restore" => folders'[d] = folders[d]
              /\ (last'.id = d /\ last'.op \in {"move", "update", "delete"})
                    => last'.result = "NotFound"
              /\ \A i \in 1..Len(folders') :
                    folders'[i].parent = d => (Exists(folders, i) /\ folders[i].parent = d)
              /\ \A k \in 1..Len(files') :
                    files'[k].folder = d => files[k].folder = d]_vars

\* --------------------------------------------------------------------- C14
\* C14: while the cascade of a soft delete or of a restore is under way, and
\* when it has failed part-way, the folders and files of the store are those of
\* before the call; when it completes, the store holds the whole cascade.
C14_AllOrNothing ==
    [][ /\ txn'.op \in {"delete", "restore"}
             => (folders' = txn'.snap.folders /\ files' = txn'.snap.files)
        /\ (txn.aborted /\ txn'.op = "none")
             => ( /\ last'.result = "Error"
                  /\ folders' = txn.snap.folders /\ files' = txn.snap.files )
        /\ last'.result = "Error" => (folders' = folders /\ files' = files)
        /\ (txn.op = "delete" /\ ~txn.aborted /\ txn'.op = "none")
             => ( /\ folders' = soft_delete(folders, txn.id, txn.t)
                  /\ files' = soft_delete_files(folders, files, txn.id, txn.t) )
        /\ (txn.op = "restore" /\ ~txn.aborted /\ txn'.op = "none")
             => ( /\ folders' = restore(folders, txn.id)
                  /\ files' = restore_files(folders, files, txn.id) )]_vars

\* A cascade has failed after some of its writes and before others.
C14_Witness ==
    /\ txn.aborted
    /\ txn.todo # {}
    /\ txn.work # txn.snap

\* --------------------------------------------------------------------- C15
\* C15: with the validate and save steps of two concurrent moves interleaved in
\* any order, no active folder comes to lie above itself along active folders.
C15_ConcurrentMovesAcyclic ==
    \A i \in 1..Len(folders) : IsActive(folders, i) => i \notin Above(folders, i, TRUE)

\* --------------------------------------------------------------------- C16
\* C16: with a soft delete of the parent committing between the validation and
\* the write of a create or a move, no state of the store has an active folder
\* whose parent is deleted.
C16_NoActiveChildOfDeleted ==
    \A i \in 1..Len(folders) :
        (IsActive(folders, i) /\ Exists(folders, folders[i].parent))
            => IsActive(folders, folders[i].parent)

\* --------------------------------------------------------------------- C17
\* C17: a create that succeeds never inserts a folder next to an active folder
\* of the same owner and parent with a case-insensitively equal name, also when
\* the checks of two concurrent creates both ran before either insert.
C17_ConcurrentCreatesUnique ==
    [][(last'.op = "create" /\ last'.result = "Created" /\ folders' # folders)
          => LET f == folders'[Len(folders')]
             IN  ~NameTaken(folders, f.user, f.parent, f.name)]_vars

\* --------------------------------------------------------------------- C18
\* C18: a soft delete of folder F gives every active file of F and of its
\* active descendants the deleted_at of F and leaves the other files alone; a
\* file move to a folder that is not an active folder of the caller is refused
\* and leaves the file where it is, a move to null or to an active folder of
\* the caller puts it there; so no active file is ever in a deleted folder.
C18_FileCascade ==
    [][ /\ \A id \in FolderIds :
              ( /\ last'.op = "delete" /\ last'.id = id /\ last'.result = "OK"
                /\ DeleteFolder("u1", id) )
              => LET D == {id} \cup ActiveBelow(folders, id)
                 IN  \A k \in 1..Len(files) :
                        files'[k] =
                            IF files[k].folder \in D /\ files[k].deleted_at = NULL
                            THEN [files[k] EXCEPT !.deleted_at = folders'[id].deleted_at]
                            ELSE files[k]
        /\ \A u \in Users, k \in FileIds, fid \in ParentArgs :
              ( /\ last'.op = "move_file" /\ last'.id = k
                /\ FileLookup(files, u, k)
                /\ MoveFileToFolder(u, k, fid) )
              => IF fid = NULL \/ (Owns(folders, u, fid) /\ IsActive(folders, fid))
                 THEN last'.result = "OK" /\ files' = [files EXCEPT ![k].folder = fid]
                 ELSE last'.result = "ValidationError" /\ files' = files
        /\ \A k \in 1..Len(files') :
              (files'[k].deleted_at = NULL /\ files'[k].folder # NULL)
                  => ( /\ Exists(folders', files'[k].folder)
                       /\ IsActive(folders', files'[k].folder)
                       /\ folders'[files'[k].folder].user = files'[k].user )]_vars

\* A soft delete has stamped a file of a folder below the deleted one, while
\* the other owner holds a folder.
C18_Witness ==
    /\ last.op = "delete" /\ last.result = "OK"
    /\ \E k \in 1..Len(files) :
          /\ Exists(folders, files[k].folder)
          /\ last.id \in Above(folders, files[k].folder, FALSE)
          /\ files[k].deleted_at = folders[last.id].deleted_at
    /\ \E j \in 1..Len(folders) : folders[j].user = "u2"

C20_MoveFrame ==
    [][\A u \in Users, id \in FolderIds, p \in ParentArgs :
          ( /\ last'.op = "move" /\ last'.id = id /\ last'.result = "OK"
            /\ MoveFolder(u, id, p) )
          => LET old == folders[id].parent
             IN  /\ folders' = [folders EXCEPT ![id].parent = p]
                 /\ files' = files
                 /\ old # p => id \notin ListFolders(folders', u, old)
                 /\ IF p = NULL
                    THEN id \in ListFolders(folders', u, NULL)
                    ELSE /\ ContentsLookup(folders', u, p)
                         /\ id \in contents_subfolders(folders', p)
                 /\ contents_files(files', id) = contents_files(files, id)
                 /\ \A k \in contents_files(files, id) :
                        files'[k].file_size = files[k].file_size
                 /\ \A d \in 1..Len(folders) \ {id} :
                        id \in Above(folders, d, FALSE) => id \in Above(folders', d, FALSE)]_vars

\* A folder that holds a file and a subfolder has just been moved under
\* another folder.
C20_Witness ==
    /\ last.op = "move" /\ last.result = "OK"
    /\ folders[last.id].parent # NULL
    /\ contents_files(files, last.id) # {}
    /\ contents_subfolders(folders, last.id) # {}

\* --------------------------------------------------------------------- C21
\* C21: a deleted folder (the one a soft delete named or one its cascade
\* reached) is answered with NotFound by get, contents, breadcrumbs and move,
\* and is in no listing, in no subfolders of a contents answer and in no folder
\* tree, for as long as it is deleted.
C21_DeletedInvisible ==
    \A d \in 1..Len(folders) :
        ~IsActive(folders, d) =>
            \A u \in Users :
                /\ ~DetailQueryset(folders, u, d)
                /\ ~ContentsLookup(folders, u, d)
                /\ ~BreadcrumbsLookup(folders, u, d)
                /\ \A p \in ParentArgs :
                      /\ MoveResult(folders, u, d, p) = "NotFound"
                      /\ d \notin ListFolders(folders, u, p)
                      /\ d \notin contents_subfolders(folders, p)
                /\ ~InSeq(d, FolderTree(folders, u))

\* A soft delete has reached a folder below the one it named, and the tree of
\* the owner still shows another folder.
C21_Witness ==
    /\ last.op = "delete" /\ last.result = "OK"
    /\ \E d \in 1..Len(folders) :
          /\ last.id \in Above(folders, d, FALSE)
          /\ ~IsActive(folders, d)
    /\ FolderTree(folders, "u1") # <<>>

\* --------------------------------------------------------------------- C22
\* C22: a create is rejected and adds no folder when the name is empty, blank
\* or holds one of / \ : * ? " < > |, when the parent is missing, deleted or of
\* another owner, or when an active folder of the caller under that parent has
\* the same name up to case; otherwise it appends one active folder with the
\* trimmed name, the caller as owner and the given parent.
C22_CreateValidation ==
    [][\A u \in Users, name \in CreateNames, p \in ParentArgs :
          (last'.op = "create" /\ CreateFolder(u, name, p))
          => LET trimmed == Strip(name)
                 badName == \/ trimmed = <<>>
                            \/ \E i \in 1..Len(trimmed) :
                                  trimmed[i] \in {"/", "\\", ":", "*", "?", "\"", "<", ">", "|"}
                 badParent == /\ p # NULL
                              /\ \/ ~Exists(folders, p)
                                 \/ ~IsActive(folders, p)
                                 \/ folders[p].user # u
                 taken == \E i \in 1..Len(folders) :
                             /\ IsActive(folders, i)
                             /\ folders[i].user = u /\ folders[i].parent = p
                             /\ Lower(folders[i].name) = Lower(trimmed)
             IN  IF badName \/ badParent \/ taken
                 THEN last'.result # "Created" /\ folders' = folders
                 ELSE /\ last'.result = "Created"
                      /\ folders' = Append(folders, [user |-> u, name |-> trimmed,
                                                     parent |-> p, deleted_at |-> NULL])]_vars

\* A create was refused for its name being taken, in a store with folders of
\* both owners and a deleted folder.
C22_Witness ==
    /\ last.op = "create" /\ last.result = "NameConflict"
    /\ \E i, j \in 1..Len(folders) : folders[i].user # folders[j].user
    /\ \E k \in 1..Len(folders) : ~IsActive(folders, k)

\* --------------------------------------------------------------------- C23
\* C23: a move of an active folder F of the caller to P (null, or an active
\* folder of the caller that is neither F nor below F) is answered with a name
\* conflict and leaves the store unchanged when another active folder of the
\* caller under P has the name of F up to case.
C23_MoveChecksNames ==
    [][\A u \in Users, id \in FolderIds, p \in ParentArgs :
          ( /\ last'.op = "move" /\ last'.id = id
            /\ Owns(folders, u, id) /\ IsActive(folders, id)
            /\ p # NULL => ( /\ Owns(folders, u, p) /\ IsActive(folders, p)
                             /\ p # id /\ id \notin Above(folders, p, FALSE) )
            /\ \E i \in 1..Len(folders) \ {id} :
                  /\ IsActive(folders, i)
                  /\ folders[i].user = u /\ folders[i].parent = p
                  /\ IExact(folders[i].name, folders[id].name)
            /\ MoveFolder(u, id, p) )
          => (last'.result = "NameConflict" /\ folders' = folders)]_vars

\* --------------------------------------------------------------------- C24
\* C24: a rename of an active folder of the caller to a name that another
\* active folder of the caller under the same parent has, up to case, is
\* answered with a name conflict and leaves the name as it is.
C24_RenameChecksNames ==
    [][\A u \in Users, id \in FolderIds, name \in RenameNames :
          ( /\ last'.op = "update" /\ last'.id = id
            /\ Owns(folders, u, id) /\ IsActive(folders, id)
            /\ \E i \in 1..Len(folders) \ {id} :
                  /\ IsActive(folders, i)
                  /\ folders[i].user = u /\ folders[i].parent = folders[id].parent
                  /\ IExact(folders[i].name, Strip(name))
            /\ UpdateFolder(u, id, "name", name, NULL) )
          => (last'.result = "NameConflict" /\ folders' = folders)]_vars

\* --------------------------------------------------------------------- C25
\* C25: the stored name of every folder is not empty after trimming and holds
\* none of the characters / \ : * ? " < > |, after creates and after renames.
C25_NamesWellFormed ==
    \A i \in 1..Len(folders) :
        /\ Strip(folders[i].name) # <<>>
        /\ \A j \in 1..Len(folders[i].name) :
              folders[i].name[j] \notin {"/", "\\", ":", "*", "?", "\"", "<", ">", "|"}

\* --------------------------------------------------------------------- C26
\* C26: the breadcrumbs of every active folder F run from the root down to F:
\* the first entry has no parent, the parent of each later entry is the entry
\* just before it, F is the last entry and no folder appears twice.
C26_BreadcrumbOrder ==
    \A u \in Users, id \in FolderIds :
        BreadcrumbsLookup(folders, u, id) =>
            LET b == breadcrumbs(folders, id)
            IN  /\ b[Len(b)] = id
                /\ folders[b[1]].parent = NULL
                /\ \A j \in 2..Len(b) : folders[b[j]].parent = b[j - 1]
                /\ \A j, k \in 1..Len(b) : b[j] = b[k] => j = k

\* --------------------------------------------------------------------- C27
NoRepeat(s) == \A j, k \in 1..Len(s) : s[j] = s[k] => j = k

\* C27: in every reachable state each traversal visits a folder at most once
\* and ends before its depth bound: the nested tree of each owner, the walk
\* over the descendants of each folder and the ancestor walk of each folder.
C27_TraversalsTerminate ==
    /\ \A u \in Users : NoRepeat(FolderTree(folders, u))
    /\ \A id \in 1..Len(folders) :
          LET d == descendants_walk(folders, ChildrenOf(folders, {id}, TRUE), MaxDepth)
              a == get_ancestors(folders, id)
          IN  /\ NoRepeat(d) /\ ~InSeq(id, d)
              /\ NoRepeat(a) /\ ~InSeq(id, a) /\ Len(a) < MaxDepth

\* --------------------------------------------------------------------- C28
\* C28: in every reachable state the nested tree of an owner holds each active
\* folder of the owner exactly once, and nothing else, so its number of nodes
\* is the reported total_folders.
C28_TreeComplete ==
    \A u \in Users :
        LET t == FolderTree(folders, u)
        IN  /\ \A i \in 1..Len(folders) :
                  (folders[i].user = u /\ IsActive(folders, i))
                      => Cardinality({j \in 1..Len(t) : t[j] = i}) = 1
            /\ Len(t) = total_folders(folders, u)

\* --------------------------------------------------------------------- C29
\* C29: when an active folder F without parent or with an active parent is
\* soft-deleted, the restore of F right after it is accepted and gives back the
\* folders and the files of before the delete: the same active ones, the same
\* parents, and whatever was deleted before still deleted at its own time.
C29_DeleteRestoreRoundTrip ==
    [][\A u \in Users, id \in FolderIds :
          ( /\ last'.op = "delete" /\ last'.id = id /\ last'.result = "OK"
            /\ DeleteFolder(u, id)
            /\ (folders'[id].parent = NULL \/ IsActive(folders', folders'[id].parent)) )
          => /\ RestoreLookup(folders', u, id)
             /\ restore_allowed(folders', id)
             /\ restore(folders', id) = folders
             /\ restore_files(folders', files', id) = files]_vars

\* A delete has taken along a folder below the deleted one and a file of that
\* folder, under a folder that has a folder below it deleted earlier.
C29_Witness ==
    /\ last.op = "delete" /\ last.result = "OK"
    /\ \E d, e \in 1..Len(folders), k \in 1..Len(files) :
          /\ last.id \in Above(folders, d, FALSE)
          /\ folders[d].deleted_at = folders[last.id].deleted_at
          /\ files[k].folder = d /\ files[k].deleted_at = folders[last.id].deleted_at
          /\ last.id \in Above(folders, e, FALSE)
          /\ ~IsActive(folders, e) /\ folders[e].deleted_at < folders[last.id].deleted_at

\* --------------------------------------------------------------------- C30
\* C30: a move under a folder that has more than MaxDepth ancestors is answered
\* with LimitExceeded and changes no folder.
C30_DeepMoveRejected ==
    [][\A id \in DeepMovers, p \in DeepParents \ {NULL} :
          ( /\ last'.op = "move" /\ last'.id = id
            /\ Cardinality(Above(folders, p, FALSE)) > MaxDepth
            /\ MoveFolder("u1", id, p) )
          => (last'.result = "LimitExceeded" /\ folders' = folders)]_vars

====
